---------------------------- MODULE Spec2Model ----------------------------
(***************************************************************************)
(* Model of the media download service of src/main.py: the pure helpers    *)
(* (detect_platform, the option builders, find_downloaded_file,            *)
(* cleanup_file) and the handler download_media, split at every access to  *)
(* the file system so that handlers running on FastAPI's thread pool       *)
(* interleave.                                                             *)
(*                                                                         *)
(* A Python str is a sequence of one-character strings.  The state keeps a *)
(* text as a sequence of tokens (Str gives its characters); every test on  *)
(* a text (in, lower, strip, isalnum) works on the characters.             *)
(* An Optional value is <<>> (None) or <<v>>.                              *)
(***************************************************************************)
EXTENDS Integers, Sequences, FiniteSets, TLC

VARIABLES
  request,          \* per worker: the DownloadRequest being handled, or None
  pc,               \* per worker: position in download_media
  platform,         \* per worker: local platform
  unique_id,        \* per worker: local unique_id
  ydl_opts,         \* per worker: local ydl_opts
  invoked,          \* per worker: extract_info was called for this request
  safe_title,       \* per worker: local safe_title
  downloaded_file,  \* per worker: local downloaded_file
  base64_data,      \* per worker: local base64_data
  final_filename,   \* per worker: local final_filename
  exc,              \* per worker: the exception being handled
  response,         \* per worker: the DownloadResponse returned
  temp_dir,         \* whether the directory TEMP_DIR exists
  files,            \* the files in TEMP_DIR
  cookies           \* which credential files exist in the working directory

vars == <<request, pc, platform, unique_id, ydl_opts, invoked, safe_title,
          downloaded_file, base64_data, final_filename, exc, response,
          temp_dir, files, cookies>>

---------------------------------------------------------------------------
(* Bounds *)

NumWorkers == 2     \* concurrent handlers
MaxUrlLen == 2      \* tokens of a URL in SpecUrls
MaxMsgLen == 2      \* tokens of a download error's message in SpecErrors
MaxFiles == 2       \* files one extraction leaves in TEMP_DIR

Workers == 1..NumWorkers

None == <<>>
Some(v) == <<v>>

---------------------------------------------------------------------------
(* Text *)

Chars(t) ==
  CASE t = " " -> <<" ">>
    [] t = "\t" -> <<"\t">>
    [] t = "x" -> <<"x">>
    [] t = "s" -> <<"s">>
    [] t = "/" -> <<"/">>
    [] t = "!" -> <<"!">>
    [] t = "youtube.com" -> <<"y", "o", "u", "t", "u", "b", "e", ".", "c", "o", "m">>
    [] t = "youtu.be" -> <<"y", "o", "u", "t", "u", ".", "b", "e">>
    [] t = "instagram.com" -> <<"i", "n", "s", "t", "a", "g", "r", "a", "m", ".", "c", "o", "m">>
    [] t = "/reel" -> <<"/", "r", "e", "e", "l">>
    [] t = "/reel/" -> <<"/", "r", "e", "e", "l", "/">>
    [] t = "/reels/" -> <<"/", "r", "e", "e", "l", "s", "/">>
    [] t = "YOUTU.BE" -> <<"Y", "O", "U", "T", "U", ".", "B", "E">>
    [] t = "Instagram.COM" -> <<"I", "n", "s", "t", "a", "g", "r", "a", "m", ".", "C", "O", "M">>
    [] t = "https://" -> <<"h", "t", "t", "p", "s", ":", "/", "/">>
    [] t = "www." -> <<"w", "w", "w", ".">>
    [] t = "watch?v=" -> <<"w", "a", "t", "c", "h", "?", "v", "=">>
    [] t = "XYZ" -> <<"X", "Y", "Z">>
    [] t = "example.org" -> <<"e", "x", "a", "m", "p", "l", "e", ".", "o", "r", "g">>
    [] t = "ERROR: " -> <<"E", "R", "R", "O", "R", ":", " ">>
    [] t = "Private video" -> <<"P", "r", "i", "v", "a", "t", "e", " ", "v", "i", "d", "e", "o">>
    [] t = "private video" -> <<"p", "r", "i", "v", "a", "t", "e", " ", "v", "i", "d", "e", "o">>
    [] t = "Video unavailable" -> <<"V", "i", "d", "e", "o", " ", "u", "n", "a", "v", "a", "i", "l", "a", "b", "l", "e">>
    [] t = "Sign in" -> <<"S", "i", "g", "n", " ", "i", "n">>
    [] t = "login" -> <<"l", "o", "g", "i", "n">>
    [] t = "LOGIN" -> <<"L", "O", "G", "I", "N">>
    [] t = "HTTP Error 403" -> <<"H", "T", "T", "P", " ", "E", "r", "r", "o", "r", " ", "4", "0", "3">>
    [] t = "My Video" -> <<"M", "y", " ", "V", "i", "d", "e", "o">>
    [] t = "a-b_c" -> <<"a", "-", "b", "_", "c">>
    [] t = "download" -> <<"d", "o", "w", "n", "l", "o", "a", "d">>
    [] t = "bad info" -> <<"b", "a", "d", " ", "i", "n", "f", "o">>
    [] t = "read failed" -> <<"r", "e", "a", "d", " ", "f", "a", "i", "l", "e", "d">>
    [] t = "ABCDEFGHIJKLMNOPQRSTUVWXYZ" -> <<"A", "B", "C", "D", "E", "F", "G", "H", "I", "J", "K", "L", "M", "N", "O", "P", "Q", "R", "S", "T", "U", "V", "W", "X", "Y", "Z">>
    [] t = "abcdefghijklmnopqrstuvwxyz" -> <<"a", "b", "c", "d", "e", "f", "g", "h", "i", "j", "k", "l", "m", "n", "o", "p", "q", "r", "s", "t", "u", "v", "w", "x", "y", "z">>
    [] t = "0123456789" -> <<"0", "1", "2", "3", "4", "5", "6", "7", "8", "9">>
    [] t = "+/" -> <<"+", "/">>
    [] t = "z*60" -> [i \in 1..60 |-> "z"]
    [] OTHER -> <<t>>

RECURSIVE Str(_)
Str(toks) == IF toks = <<>> THEN <<>> ELSE Chars(Head(toks)) \o Str(Tail(toks))

Range(s) == {s[i] : i \in 1..Len(s)}

UpperCase == Chars("ABCDEFGHIJKLMNOPQRSTUVWXYZ")
LowerCase == Chars("abcdefghijklmnopqrstuvwxyz")
Digits == Chars("0123456789")
Whitespace == {" ", "\t"}

\* str.lower()
LowerChar(c) ==
  IF c \in Range(UpperCase)
  THEN LowerCase[CHOOSE i \in 1..Len(UpperCase) : UpperCase[i] = c]
  ELSE c

Lower(s) == [i \in 1..Len(s) |-> LowerChar(s[i])]

\* sub in s
In(sub, s) ==
  \E i \in 1..(Len(s) - Len(sub) + 1) : SubSeq(s, i, i + Len(sub) - 1) = sub

\* str.strip()
RECURSIVE LStrip(_)
LStrip(s) ==
  IF s # <<>> /\ Head(s) \in Whitespace THEN LStrip(Tail(s)) ELSE s

RECURSIVE RStrip(_)
RStrip(s) ==
  IF s # <<>> /\ s[Len(s)] \in Whitespace
  THEN RStrip(SubSeq(s, 1, Len(s) - 1)) ELSE s

Strip(s) == RStrip(LStrip(s))

\* str.isalnum() of one character
IsAlnum(c) == c \in Range(UpperCase) \cup Range(LowerCase) \cup Range(Digits)

\* str.capitalize() of a platform tag
Capitalize(p) ==
  CASE p = "youtube" -> "Youtube"
    [] p = "instagram" -> "Instagram"
    [] OTHER -> p

---------------------------------------------------------------------------
(* Constants of src/main.py *)

TEMP_DIR == "temp_downloads"
COOKIES_YOUTUBE == "cookies_youtube.txt"
COOKIES_INSTAGRAM == "cookies_instagram.txt"

\* os.path.join(os.getcwd(), name)
CwdPath(name) == <<"cwd", name>>

CookieName(p) == IF p = "instagram" THEN COOKIES_INSTAGRAM ELSE COOKIES_YOUTUBE

---------------------------------------------------------------------------
(* detect_platform *)

detect_platform_youtube_first(url) ==
  LET url_lower == Lower(url) IN
  IF In(Str(<<"youtube.com">>), url_lower) \/ In(Str(<<"youtu.be">>), url_lower)
  THEN "youtube"
  ELSE IF \/ In(Str(<<"instagram.com">>), url_lower)
          \/ In(Str(<<"/reel/">>), url_lower)
          \/ In(Str(<<"/reels/">>), url_lower)
  THEN "instagram"
  ELSE "unsupported"

detect_platform(url) ==
  LET url_lower == Lower(url) IN
  IF \/ In(Str(<<"instagram.com">>), url_lower)
     \/ In(Str(<<"/reel/">>), url_lower)
     \/ In(Str(<<"/reels/">>), url_lower)
  THEN "instagram"
  ELSE IF In(Str(<<"youtube.com">>), url_lower) \/ In(Str(<<"youtu.be">>), url_lower)
  THEN "youtube"
  ELSE "unsupported"

---------------------------------------------------------------------------
(* Option builders *)

\* os.path.exists(cookie_file)
CookieExists(name) == cookies[name]

Mp3Postprocessor ==
  [key |-> "FFmpegExtractAudio", preferredcodec |-> "mp3", preferredquality |-> "192"]

get_youtube_options_no_transcode(output_template, format_type) ==
  LET cookie_file == CwdPath(COOKIES_YOUTUBE) IN
  [format |-> IF format_type = "mp3" THEN "bestaudio/best"
              ELSE "bestvideo[ext=mp4]+bestaudio[ext=m4a]/bestvideo+bestaudio/best",
   merge_output_format |-> "mp4",
   outtmpl |-> output_template,
   cookiefile |-> IF CookieExists(COOKIES_YOUTUBE) THEN Some(cookie_file) ELSE None,
   quiet |-> TRUE,
   no_warnings |-> TRUE,
   nocheckcertificate |-> TRUE]

get_youtube_options(output_template, format_type) ==
  LET cookie_file == CwdPath(COOKIES_YOUTUBE) IN
  IF format_type = "mp3"
  THEN [format |-> "bestaudio/best",
        outtmpl |-> output_template,
        cookiefile |-> IF CookieExists(COOKIES_YOUTUBE) THEN Some(cookie_file) ELSE None,
        quiet |-> TRUE,
        no_warnings |-> TRUE,
        nocheckcertificate |-> TRUE,
        postprocessors |-> <<Mp3Postprocessor>>]
  ELSE [format |-> "bestvideo[ext=mp4]+bestaudio[ext=m4a]/bestvideo+bestaudio/best",
        merge_output_format |-> "mp4",
        outtmpl |-> output_template,
        cookiefile |-> IF CookieExists(COOKIES_YOUTUBE) THEN Some(cookie_file) ELSE None,
        quiet |-> TRUE,
        no_warnings |-> TRUE,
        nocheckcertificate |-> TRUE]

get_instagram_options(output_template) ==
  LET cookie_file == CwdPath(COOKIES_INSTAGRAM) IN
  [format |-> "best[ext=mp4]/best",
   outtmpl |-> output_template,
   cookiefile |-> IF CookieExists(COOKIES_INSTAGRAM) THEN Some(cookie_file) ELSE None,
   quiet |-> TRUE,
   no_warnings |-> TRUE,
   nocheckcertificate |-> TRUE,
   http_headers |->
     [h \in {"User-Agent"} |-> "Mozilla/5.0 (Windows NT 10.0; Win64; x64) AppleWebKit/537.36 (KHTML, like Gecko) Chrome/120.0.0.0 Safari/537.36"]]

\* if platform == "instagram": ... else: ...   (download_media)
platform_options_by_format(plat, output_template, format_type) ==
  IF plat = "instagram" /\ format_type # "mp3"
  THEN get_instagram_options(output_template)
  ELSE get_youtube_options(output_template, format_type)

platform_options(plat, output_template, format_type) ==
  IF plat = "instagram"
  THEN get_instagram_options(output_template)
  ELSE get_youtube_options(output_template, format_type)

\* if ydl_opts.get("cookiefile") is None: del ydl_opts["cookiefile"]
drop_none_cookiefile_kept(opts) == opts

drop_none_cookiefile(opts) ==
  IF opts["cookiefile"] = None
  THEN [k \in DOMAIN opts \ {"cookiefile"} |-> opts[k]]
  ELSE opts

\* os.path.join(TEMP_DIR, f"{unique_id}.%(ext)s")
OutputTemplate(uid) == [dir |-> TEMP_DIR, stem |-> uid, ext |-> "%(ext)s"]

---------------------------------------------------------------------------
(* Files of TEMP_DIR: a file is [uid, ext, content], named <uid>.<ext>;    *)
(* ext is the list of the dot-separated parts after the identifier.        *)

Path(f) == [dir |-> TEMP_DIR, uid |-> f.uid, ext |-> f.ext]

\* os.path.exists(path) for a path in TEMP_DIR
PathExists(path) == \E f \in files : Path(f) = path

\* glob.glob(os.path.join(temp_dir, "*")): every file of the directory
glob_any(dir, uid) == {Path(f) : f \in {g \in files : dir = TEMP_DIR}}

\* glob.glob(os.path.join(temp_dir, f"{unique_id}.*"))
glob(dir, uid) == {Path(f) : f \in {g \in files : dir = TEMP_DIR /\ g.uid = uid}}

\* The values find_downloaded_file can return: glob.glob gives the matches
\* in arbitrary order, and files[0] is any of them.
find_downloaded_file(dir, uid) ==
  LET matches == glob(dir, uid) IN
  IF matches # {} THEN {Some(p) : p \in matches} ELSE {None}

\* os.path.splitext(path)[1].lstrip('.')
ActualExt(path) == path.ext[Len(path.ext)]

\* The directories cleanup_file can leave: os.remove may raise, and the
\* exception is swallowed.
cleanup_file(filepath) ==
  IF filepath # None /\ PathExists(filepath[1])
  THEN {{f \in files : Path(f) # filepath[1]}, files}
  ELSE {files}

---------------------------------------------------------------------------
(* base64.b64encode(file_data).decode("utf-8") *)

B64Alphabet == UpperCase \o LowerCase \o Digits \o Chars("+/")

B64Group(b) ==
  LET n == b[1] * 65536
           + (IF Len(b) > 1 THEN b[2] * 256 ELSE 0)
           + (IF Len(b) > 2 THEN b[3] ELSE 0)
  IN << B64Alphabet[(n \div 262144) + 1],
        B64Alphabet[((n \div 4096) % 64) + 1],
        IF Len(b) > 1 THEN B64Alphabet[((n \div 64) % 64) + 1] ELSE "=",
        IF Len(b) > 2 THEN B64Alphabet[(n % 64) + 1] ELSE "=" >>

RECURSIVE b64encode(_)
b64encode(bytes) ==
  IF bytes = <<>> THEN <<>>
  ELSE IF Len(bytes) <= 3 THEN B64Group(bytes)
  ELSE B64Group(SubSeq(bytes, 1, 3)) \o b64encode(SubSeq(bytes, 4, Len(bytes)))

---------------------------------------------------------------------------
(* Title and messages *)

TitleLimit == 100

TitleCharKept(c) == IsAlnum(c) \/ c \in {" ", "-", "_"}

\* info.get('title', 'download'), cleaned and cut
SafeTitle(title) ==
  LET t == IF title = None THEN Str(<<"download">>) ELSE Str(title[1])
      kept == Strip(SelectSeq(t, TitleCharKept))
  IN SubSeq(kept, 1, IF Len(kept) < TitleLimit THEN Len(kept) ELSE TitleLimit)

download_error_message_unavailable_first(error_msg, plat) ==
  IF In(Str(<<"Video unavailable">>), Str(error_msg))
  THEN <<"This video is unavailable">>
  ELSE IF In(Str(<<"Private video">>), Str(error_msg))
  THEN <<"This video is private and cannot be downloaded">>
  ELSE <<"Download failed: ">> \o error_msg

\* the message chosen in "except yt_dlp.utils.DownloadError as e"
download_error_message(error_msg, plat) ==
  IF In(Str(<<"Private video">>), Str(error_msg))
  THEN <<"This video is private and cannot be downloaded">>
  ELSE IF In(Str(<<"Video unavailable">>), Str(error_msg))
  THEN <<"This video is unavailable">>
  ELSE IF \/ In(Str(<<"Sign in">>), Str(error_msg))
          \/ In(Str(<<"login">>), Lower(Str(error_msg)))
  THEN <<"Authentication required. Please ensure ", CookieName(plat),
         " is properly configured.">>
  ELSE <<"Download failed: ">> \o error_msg

DownloadResponse(status, filename, data, message) ==
  [status |-> status, filename |-> filename, data |-> data, message |-> message]

ErrorResponse(message) == DownloadResponse("error", <<>>, <<>>, message)

---------------------------------------------------------------------------
(* Inputs: what a client may send and what the extraction collaborator     *)
(* (yt_dlp, consumed as a black box) may do.                               *)

Formats == {"mp4", "mp3", "null"}

HandlerUrls ==
  { <<>>,
    <<" ", "\t">>,
    <<"example.org">>,
    <<" ", "https://", "youtu.be", "/", "XYZ", " ">>,
    <<"https://", "www.", "instagram.com", "/reel/", "XYZ", "/">>,
    <<"https://", "www.", "YOUTU.BE", "/reels/", "XYZ">> }

Titles == {None, Some(<<" ", "My Video", "!">>), Some(<<"z*60", "/", "z*60">>)}

ErrorMessages ==
  { <<"ERROR: ", "Private video">>,
    <<"Video unavailable", "Private video">>,
    <<"Sign in", "Private video", "login">>,
    <<"private video">>,
    <<"Video unavailable", "Sign in">>,
    <<"Sign in">>,
    <<"LOGIN">>,
    <<"HTTP Error 403">>,
    <<>> }

Exts == {<<"mp4">>, <<"mp3">>, <<"mp4", "part">>}

Contents == {<<>>, <<77>>, <<255, 0, 16, 128>>}

Inputs ==
  [urls |-> HandlerUrls, formats |-> Formats, titles |-> Titles,
   msgs |-> ErrorMessages, exts |-> Exts, contents |-> Contents]

ConcUrls ==
  { <<" ", "\t">>,
    <<"example.org">>,
    <<" ", "https://", "youtu.be", "/", "XYZ", " ">>,
    <<"https://", "www.", "instagram.com", "/reel/", "XYZ", "/">> }

ConcInputs ==
  [urls |-> ConcUrls, formats |-> {"mp4"}, titles |-> {None},
   msgs |-> {<<"HTTP Error 403">>}, exts |-> {<<"mp4">>, <<"mp3">>},
   contents |-> {<<77>>}]

RECURSIVE SeqsUpTo(_, _)
SeqsUpTo(S, n) ==
  IF n = 0 THEN {<<>>}
  ELSE LET shorter == SeqsUpTo(S, n - 1)
       IN shorter \cup {Append(s, x) : s \in shorter, x \in S}

UrlTokens ==
  {" ", "\t", "x", "s", "/", "/reel", "/reels/", "youtube.com", "youtu.be",
   "instagram.com", "YOUTU.BE", "Instagram.COM"}

UrlInputs ==
  [urls |-> SeqsUpTo(UrlTokens, MaxUrlLen), formats |-> {"mp4", "mp3"}, titles |-> {None},
   msgs |-> {<<"HTTP Error 403">>}, exts |-> {<<"mp4">>}, contents |-> {<<77>>}]

MsgTokens ==
  {"Private video", "private video", "Video unavailable", "Sign in", "LOGIN", "x"}

ErrorInputs ==
  [urls |-> ConcUrls, formats |-> {"mp4"}, titles |-> {None},
   msgs |-> SeqsUpTo(MsgTokens, MaxMsgLen), exts |-> {<<"mp4">>},
   contents |-> {<<77>>}]

\* The sets of files an extraction told to write to outtmpl can leave.
Written(outtmpl, P) ==
  {W \in SUBSET [uid : {outtmpl.stem}, ext : P.exts, content : P.contents] :
     /\ Cardinality(W) <= MaxFiles
     /\ \A f, g \in W : f.ext = g.ext => f = g}

---------------------------------------------------------------------------
(* download_media *)

\* str(uuid.uuid4()): a fresh identifier, here named after the worker that
\* drew it (a worker handles one request)
uuid4(r) == <<"uuid", r>>

\* What an earlier run of the service may have left in TEMP_DIR.
StaleFiles == {[uid |-> <<"uuid", 0>>, ext |-> <<"mp4">>, content |-> <<77>>]}

Url_unstripped(r) == Str(request[r][1].url)

\* request.url.strip()
Url(r) == Strip(Str(request[r][1].url))

\* request.format or 'mp4'
FormatType(r) == IF request[r][1].format = "null" THEN "mp4" ELSE request[r][1].format

Init ==
  /\ request = [r \in Workers |-> None]
  /\ pc = [r \in Workers |-> "idle"]
  /\ platform = [r \in Workers |-> None]
  /\ unique_id = [r \in Workers |-> None]
  /\ ydl_opts = [r \in Workers |-> None]
  /\ invoked = [r \in Workers |-> FALSE]
  /\ safe_title = [r \in Workers |-> None]
  /\ downloaded_file = [r \in Workers |-> None]
  /\ base64_data = [r \in Workers |-> None]
  /\ final_filename = [r \in Workers |-> None]
  /\ exc = [r \in Workers |-> None]
  /\ response = [r \in Workers |-> None]
  /\ temp_dir \in BOOLEAN
  /\ files \in (IF temp_dir THEN SUBSET StaleFiles ELSE {{}})
  /\ cookies \in [{COOKIES_YOUTUBE, COOKIES_INSTAGRAM} -> BOOLEAN]

\* A request arrives and FastAPI hands it to the handler.
Accept(r, P) ==
  /\ \E u \in P.urls, f \in P.formats :
       request' = [request EXCEPT ![r] = Some([url |-> u, format |-> f])]
  /\ pc' = [pc EXCEPT ![r] = "validate"]
  /\ platform' = [platform EXCEPT ![r] = None]
  /\ unique_id' = [unique_id EXCEPT ![r] = None]
  /\ ydl_opts' = [ydl_opts EXCEPT ![r] = None]
  /\ invoked' = [invoked EXCEPT ![r] = FALSE]
  /\ safe_title' = [safe_title EXCEPT ![r] = None]
  /\ downloaded_file' = [downloaded_file EXCEPT ![r] = None]
  /\ base64_data' = [base64_data EXCEPT ![r] = None]
  /\ final_filename' = [final_filename EXCEPT ![r] = None]
  /\ exc' = [exc EXCEPT ![r] = None]
  /\ response' = [response EXCEPT ![r] = None]
  /\ UNCHANGED <<temp_dir, files, cookies>>

Receive(r, P) ==
  /\ pc[r] = "idle"
  /\ Accept(r, P)

\* lines 193-214: strip, validate, detect the platform
Validate(r) ==
  /\ pc[r] = "validate"
  /\ IF Url(r) = <<>>
     THEN /\ response' = [response EXCEPT ![r] = Some(ErrorResponse(<<"URL is required">>))]
          /\ pc' = [pc EXCEPT ![r] = "done"]
          /\ UNCHANGED platform
     ELSE /\ platform' = [platform EXCEPT ![r] = Some(detect_platform(Url(r)))]
          /\ IF detect_platform(Url(r)) = "unsupported"
             THEN /\ response' = [response EXCEPT ![r] = Some(ErrorResponse(
                        <<"Unsupported URL. Only YouTube and Instagram URLs are supported.">>))]
                  /\ pc' = [pc EXCEPT ![r] = "done"]
             ELSE /\ pc' = [pc EXCEPT ![r] = "makedirs"]
                  /\ UNCHANGED response
  /\ UNCHANGED <<request, unique_id, ydl_opts, invoked, safe_title, downloaded_file,
                 base64_data, final_filename, exc, temp_dir, files, cookies>>

\* lines 217-223: os.makedirs(TEMP_DIR, exist_ok=True), outside the try block,
\* then the identifier.  Creating the directory can fail (OSError).
MakeDirs(r) ==
  /\ pc[r] = "makedirs"
  /\ temp_dir' = TRUE
  /\ unique_id' = [unique_id EXCEPT ![r] = Some(uuid4(r))]
  /\ downloaded_file' = [downloaded_file EXCEPT ![r] = None]
  /\ pc' = [pc EXCEPT ![r] = "options"]
  /\ UNCHANGED <<request, platform, ydl_opts, invoked, safe_title, base64_data,
                 final_filename, exc, response, files, cookies>>

MakeDirsRaises(r) ==
  /\ pc[r] = "makedirs"
  /\ ~temp_dir
  /\ exc' = [exc EXCEPT ![r] = Some([type |-> "OSError", msg |-> <<"makedirs failed">>])]
  /\ pc' = [pc EXCEPT ![r] = "raised"]
  /\ UNCHANGED <<request, platform, unique_id, ydl_opts, invoked, safe_title,
                 downloaded_file, base64_data, final_filename, response,
                 temp_dir, files, cookies>>

\* lines 226-236
BuildOptions(r) ==
  /\ pc[r] = "options"
  /\ ydl_opts' = [ydl_opts EXCEPT ![r] =
       Some(drop_none_cookiefile(
              platform_options(platform[r][1], OutputTemplate(unique_id[r][1]),
                               FormatType(r))))]
  /\ pc' = [pc EXCEPT ![r] = "extract"]
  /\ UNCHANGED <<request, platform, unique_id, invoked, safe_title, downloaded_file,
                 base64_data, final_filename, exc, response, temp_dir, files,
                 cookies>>

\* lines 239-246: the collaborator runs with ydl_opts; it may leave files named
\* by outtmpl whether it returns or raises.
Extract(r, P) ==
  /\ pc[r] = "extract"
  /\ invoked' = [invoked EXCEPT ![r] = TRUE]
  /\ \E W \in Written(ydl_opts[r][1].outtmpl, P) : files' = files \cup W
  /\ \/ \E t \in P.titles :
          /\ safe_title' = [safe_title EXCEPT ![r] = Some(SafeTitle(t))]
          /\ pc' = [pc EXCEPT ![r] = "find"]
          /\ UNCHANGED exc
     \/ \E m \in P.msgs :
          /\ exc' = [exc EXCEPT ![r] = Some([type |-> "DownloadError", msg |-> m])]
          /\ pc' = [pc EXCEPT ![r] = "except_download"]
          /\ UNCHANGED safe_title
     \/ /\ exc' = [exc EXCEPT ![r] = Some([type |-> "Exception", msg |-> <<"bad info">>])]
        /\ pc' = [pc EXCEPT ![r] = "except"]
        /\ UNCHANGED safe_title
  /\ UNCHANGED <<request, platform, unique_id, ydl_opts, downloaded_file, base64_data,
                 final_filename, response, temp_dir, cookies>>

\* line 249
Find(r) ==
  /\ pc[r] = "find"
  /\ \E p \in find_downloaded_file(TEMP_DIR, unique_id[r][1]) :
       downloaded_file' = [downloaded_file EXCEPT ![r] = p]
  /\ pc' = [pc EXCEPT ![r] = "check"]
  /\ UNCHANGED <<request, platform, unique_id, ydl_opts, invoked, safe_title,
                 base64_data, final_filename, exc, response, temp_dir, files,
                 cookies>>

Check_generic_message(r) ==
  /\ pc[r] = "check"
  /\ IF downloaded_file[r] = None \/ ~PathExists(downloaded_file[r][1])
     THEN /\ response' = [response EXCEPT ![r] =
                 Some(ErrorResponse(<<"Download failed: ">>))]
          /\ pc' = [pc EXCEPT ![r] = "done"]
     ELSE /\ pc' = [pc EXCEPT ![r] = "read"]
          /\ UNCHANGED response
  /\ UNCHANGED <<request, platform, unique_id, ydl_opts, invoked, safe_title,
                 downloaded_file, base64_data, final_filename, exc, temp_dir,
                 files, cookies>>

\* lines 251-257
Check(r) ==
  /\ pc[r] = "check"
  /\ IF downloaded_file[r] = None \/ ~PathExists(downloaded_file[r][1])
     THEN /\ response' = [response EXCEPT ![r] =
                 Some(ErrorResponse(<<"Download completed but file not found">>))]
          /\ pc' = [pc EXCEPT ![r] = "done"]
     ELSE /\ pc' = [pc EXCEPT ![r] = "read"]
          /\ UNCHANGED response
  /\ UNCHANGED <<request, platform, unique_id, ydl_opts, invoked, safe_title,
                 downloaded_file, base64_data, final_filename, exc, temp_dir,
                 files, cookies>>

\* lines 260-269
Read(r) ==
  /\ pc[r] = "read"
  /\ \E f \in files :
       /\ Path(f) = downloaded_file[r][1]
       /\ base64_data' = [base64_data EXCEPT ![r] = Some(b64encode(f.content))]
  /\ final_filename' = [final_filename EXCEPT ![r] =
       Some(safe_title[r][1] \o <<".", ActualExt(downloaded_file[r][1])>>)]
  /\ pc' = [pc EXCEPT ![r] = "cleanup"]
  /\ UNCHANGED <<request, platform, unique_id, ydl_opts, invoked, safe_title,
                 downloaded_file, exc, response, temp_dir, files, cookies>>

\* open() or read() raises: the file is gone or cannot be read
ReadRaises(r) ==
  /\ pc[r] = "read"
  /\ exc' = [exc EXCEPT ![r] = Some([type |-> "Exception", msg |-> <<"read failed">>])]
  /\ pc' = [pc EXCEPT ![r] = "except"]
  /\ UNCHANGED <<request, platform, unique_id, ydl_opts, invoked, safe_title,
                 downloaded_file, base64_data, final_filename, response,
                 temp_dir, files, cookies>>

\* lines 272-279
Succeed(r) ==
  /\ pc[r] = "cleanup"
  /\ files' \in cleanup_file(downloaded_file[r])
  /\ response' = [response EXCEPT ![r] =
       Some(DownloadResponse("success", final_filename[r][1], base64_data[r][1],
              <<"Successfully downloaded from ", Capitalize(platform[r][1])>>))]
  /\ pc' = [pc EXCEPT ![r] = "done"]
  /\ UNCHANGED <<request, platform, unique_id, ydl_opts, invoked, safe_title,
                 downloaded_file, base64_data, final_filename, exc, temp_dir,
                 cookies>>

\* lines 281-299
ExceptDownloadError(r) ==
  /\ pc[r] = "except_download"
  /\ files' \in cleanup_file(downloaded_file[r])
  /\ response' = [response EXCEPT ![r] =
       Some(ErrorResponse(download_error_message(exc[r][1].msg, platform[r][1])))]
  /\ pc' = [pc EXCEPT ![r] = "done"]
  /\ UNCHANGED <<request, platform, unique_id, ydl_opts, invoked, safe_title,
                 downloaded_file, base64_data, final_filename, exc, temp_dir,
                 cookies>>

\* lines 301-309
ExceptException(r) ==
  /\ pc[r] = "except"
  /\ files' \in cleanup_file(downloaded_file[r])
  /\ response' = [response EXCEPT ![r] =
       Some(ErrorResponse(<<"An error occurred: ">> \o exc[r][1].msg))]
  /\ pc' = [pc EXCEPT ![r] = "done"]
  /\ UNCHANGED <<request, platform, unique_id, ydl_opts, invoked, safe_title,
                 downloaded_file, base64_data, final_filename, exc, temp_dir,
                 cookies>>

\* An operator installs or removes a credential file.
SetCookies ==
  /\ \E name \in DOMAIN cookies : cookies' = [cookies EXCEPT ![name] = ~@]
  /\ UNCHANGED <<request, pc, platform, unique_id, ydl_opts, invoked, safe_title,
                 downloaded_file, base64_data, final_filename, exc, response,
                 temp_dir, files>>

download_media(r, P) ==
  \/ Validate(r)
  \/ MakeDirs(r)
  \/ MakeDirsRaises(r)
  \/ BuildOptions(r)
  \/ Extract(r, P)
  \/ Find(r)
  \/ Check(r)
  \/ Read(r)
  \/ ReadRaises(r)
  \/ Succeed(r)
  \/ ExceptDownloadError(r)
  \/ ExceptException(r)

\* One request, with every input.
Next ==
  \/ Receive(1, Inputs)
  \/ download_media(1, Inputs)
  \/ SetCookies

Spec == Init /\ [][Next]_vars

\* One request per worker, the handlers interleaving.
NextConc ==
  \E r \in Workers :
    \/ Receive(r, ConcInputs)
    \/ download_media(r, ConcInputs)

InitConc ==
  /\ Init
  /\ files = {}
  /\ cookies = [name \in {COOKIES_YOUTUBE, COOKIES_INSTAGRAM} |-> FALSE]

SpecConc == InitConc /\ [][NextConc]_vars

\* One request, with every URL of up to MaxUrlLen tokens.
NextUrls ==
  \/ Receive(1, UrlInputs)
  \/ download_media(1, UrlInputs)

SpecUrls == Init /\ [][NextUrls]_vars

\* One request, with every error message of up to MaxMsgLen tokens.
NextErrors ==
  \/ Receive(1, ErrorInputs)
  \/ download_media(1, ErrorInputs)

SpecErrors == Init /\ [][NextErrors]_vars

---------------------------------------------------------------------------
(* Properties *)

\* sub occurs in s at some position
Occurs(sub, s) ==
  LET m == Chars(sub) IN
  \E a \in 0..(Len(s) - Len(m)) : SubSeq(s, a + 1, a + Len(m)) = m

OnlyWhitespace(s) == \A i \in 1..Len(s) : s[i] \in {" ", "\t"}

OwnFiles(r) == {f \in files : unique_id[r] = Some(f.uid)}

HasMp3Transcode(opts) ==
  /\ "postprocessors" \in DOMAIN opts
  /\ \E i \in 1..Len(opts["postprocessors"]) :
       /\ opts["postprocessors"][i].preferredcodec = "mp3"
       /\ opts["postprocessors"][i].preferredquality = "192"

WithoutCookie(opts) == [k \in DOMAIN opts \ {"cookiefile"} |-> opts[k]]

NotFound == ErrorResponse(<<"Download completed but file not found">>)

\* C1: when a request that ran the extraction has been answered, TEMP_DIR
\* holds no file named after the request's identifier.
C1_CleanupInvariant ==
  \A r \in Workers :
    (pc[r] = "done" /\ invoked[r]) => OwnFiles(r) = {}

\* C2: no exception leaves the handler; every failure is answered with
\* status error and a message.
C2_EveryFailureAnswered ==
  \A r \in Workers :
    /\ pc[r] # "raised"
    /\ (pc[r] = "done" /\ exc[r] # None) =>
         /\ response[r] # None
         /\ response[r][1].status = "error"
         /\ response[r][1].message # <<>>

Rejected(r) ==
  /\ pc'[r] = "done"
  /\ response'[r] # None
  /\ response'[r][1].status = "error"
  /\ ~invoked'[r]
  /\ unique_id'[r] = None
  /\ ydl_opts'[r] = None
  /\ temp_dir' = temp_dir
  /\ files' = files

\* C3: a URL that is empty once stripped is answered "URL is required", an
\* unsupported one is answered with an error, and in both cases the
\* validation step ends the request: no extraction, no identifier, no
\* directory, no file; an answered request that was rejected never ran the
\* extraction.
C3_ValidationPrecedesExtraction ==
  /\ [][\A r \in Workers :
          (pc[r] = "validate" /\ pc'[r] # "validate") =>
            LET u == Str(request[r][1].url) IN
            /\ OnlyWhitespace(u) =>
                 /\ Rejected(r)
                 /\ response'[r][1].message = <<"URL is required">>
            /\ (~OnlyWhitespace(u) /\ detect_platform(Strip(u)) = "unsupported") =>
                 Rejected(r)]_vars
  /\ [](\A r \in Workers :
          (pc[r] = "done" /\ (platform[r] = None \/ platform[r] = Some("unsupported")))
            => (~invoked[r] /\ unique_id[r] = None /\ OwnFiles(r) = {}))

C3_Witness ==
  \E r \in Workers :
    /\ pc[r] = "done"
    /\ request[r][1].url = <<" ", "\t">>
    /\ response[r] = Some(ErrorResponse(<<"URL is required">>))

\* C4 (as stated): whatever the platform, the options built for a request
\* with format mp3 hold a postprocessor for mp3 at quality 192.
C4_Mp3TranscodeAnyPlatform ==
  \A r \in Workers :
    (ydl_opts[r] # None /\ request[r][1].format = "mp3")
      => HasMp3Transcode(ydl_opts[r][1])

\* C4 (amended): the options built for a request with format mp3 hold a
\* postprocessor for mp3 at quality 192 when the platform is YouTube, and
\* no postprocessor when it is Instagram.
C4_Mp3TranscodeYoutube ==
  \A r \in Workers :
    (ydl_opts[r] # None /\ request[r][1].format = "mp3") =>
      /\ platform[r] = Some("youtube") => HasMp3Transcode(ydl_opts[r][1])
      /\ platform[r] = Some("instagram") =>
           "postprocessors" \notin DOMAIN ydl_opts[r][1]

C4_Witness ==
  \E r \in Workers :
    /\ invoked[r]
    /\ request[r][1].format = "mp3"
    /\ platform[r] = Some("youtube")
    /\ HasMp3Transcode(ydl_opts[r][1])

\* C5: the options built for an Instagram URL select mp4, carry no
\* postprocessor, and are, the credential aside, what the builder gives for
\* format mp4 and for format mp3.
C5_InstagramIgnoresFormat ==
  \A r \in Workers :
    (ydl_opts[r] # None /\ platform[r] = Some("instagram")) =>
      /\ ydl_opts[r][1].format = "best[ext=mp4]/best"
      /\ "postprocessors" \notin DOMAIN ydl_opts[r][1]
      /\ \A f \in {"mp4", "mp3"} :
           WithoutCookie(ydl_opts[r][1]) =
             WithoutCookie(platform_options("instagram",
                             OutputTemplate(unique_id[r][1]), f))

C5_Witness ==
  \E r \in Workers :
    /\ invoked[r]
    /\ request[r][1] =
         [url |-> <<"https://", "www.", "instagram.com", "/reel/", "XYZ", "/">>,
          format |-> "mp3"]
    /\ ydl_opts[r][1].format = "best[ext=mp4]/best"

HasInstagramMarker(s) ==
  Occurs("instagram.com", s) \/ Occurs("/reel/", s) \/ Occurs("/reels/", s)

HasYoutubeMarker(s) == Occurs("youtube.com", s) \/ Occurs("youtu.be", s)

Expected(s) ==
  IF HasInstagramMarker(s) THEN "instagram"
  ELSE IF HasYoutubeMarker(s) THEN "youtube"
  ELSE "unsupported"

\* C6: on the lower-cased URL, detect_platform gives instagram when an
\* Instagram marker occurs (a YouTube marker or not), youtube when a YouTube
\* marker and no Instagram marker occurs, unsupported otherwise; the handler
\* stores that tag for the stripped URL.
C6_DetectPlatform ==
  \A r \in Workers :
    request[r] # None =>
      LET u == Str(request[r][1].url) IN
      /\ detect_platform(u) = Expected(Lower(u))
      /\ platform[r] # None => platform[r] = Some(Expected(Lower(Strip(u))))

C6_Witness ==
  \E r \in Workers :
    /\ platform[r] = Some("instagram")
    /\ HasYoutubeMarker(Lower(Str(request[r][1].url)))

KnownMarker(s) ==
  \/ Occurs("Private video", s)
  \/ Occurs("Video unavailable", s)
  \/ Occurs("Sign in", s)
  \/ Occurs("login", Lower(s))

\* C7: a download error whose message contains "Private video" is answered
\* with status error, no filename, no data and the private-video message,
\* whatever else the message contains; a message with no known marker is
\* answered "Download failed: " followed by the message.
C7_PrivateVideoMessage ==
  \A r \in Workers :
    (pc[r] = "done" /\ exc[r] # None /\ exc[r][1].type = "DownloadError") =>
      LET m == exc[r][1].msg IN
      /\ Occurs("Private video", Str(m)) =>
           response[r] = Some([status |-> "error", filename |-> <<>>, data |-> <<>>,
                               message |-> <<"This video is private and cannot be downloaded">>])
      /\ ~KnownMarker(Str(m)) =>
           response[r] = Some([status |-> "error", filename |-> <<>>, data |-> <<>>,
                               message |-> <<"Download failed: ">> \o m])

C7_Witness ==
  \E r \in Workers :
    /\ pc[r] = "done"
    /\ exc[r] = Some([type |-> "DownloadError",
                      msg |-> <<"Video unavailable", "Private video">>])
    /\ response[r][1].message = <<"This video is private and cannot be downloaded">>

\* C8: once the extraction has returned and TEMP_DIR holds no file named
\* after the request's identifier, the handler's next steps answer
\* "Download completed but file not found" with no filename and no data,
\* and read nothing.
C8_MissingArtifact ==
  [][\A r \in Workers :
       (pc[r] \in {"find", "check"} /\ pc'[r] # pc[r] /\ OwnFiles(r) = {}) =>
         /\ pc'[r] \in {"check", "done"}
         /\ pc'[r] = "done" => response'[r] = Some(NotFound)
         /\ base64_data'[r] = None
         /\ final_filename'[r] = None]_vars

C8_Witness ==
  \E r \in Workers :
    /\ pc[r] = "done"
    /\ invoked[r]
    /\ files # {}
    /\ OwnFiles(r) = {}
    /\ response[r] = Some(NotFound)

\* C9: concurrent requests carry distinct identifiers; the file a request
\* located is named after its own identifier, the data it encodes is that
\* of a file named after its identifier, and a file leaves TEMP_DIR only in
\* a step of the request whose identifier it carries.
C9_RequestsIsolated ==
  /\ [](\A r, s \in Workers :
          /\ (r # s /\ unique_id[r] # None) => unique_id[r] # unique_id[s]
          /\ downloaded_file[r] # None =>
               Some(downloaded_file[r][1].uid) = unique_id[r])
  /\ [][\A r \in Workers :
          /\ (pc[r] = "read" /\ pc'[r] = "cleanup") =>
               \E f \in OwnFiles(r) : base64_data'[r] = Some(b64encode(f.content))
          /\ pc'[r] # pc[r] =>
               \A f \in files \ files' : unique_id[r] = Some(f.uid)]_vars

C9_Witness ==
  \E r, s \in Workers :
    /\ r # s
    /\ pc[r] = "done" /\ response[r] # None /\ response[r][1].status = "success"
    /\ pc[s] = "cleanup"
    /\ OwnFiles(r) = {}
    /\ OwnFiles(s) # {}

\* C10: the options handed to the extraction hold the field cookiefile
\* exactly when the platform's credential file existed as they were built,
\* its value is then the path of that file (never None), and building the
\* options leads to the extraction whether the file exists or not.
C10_CookiefileIffExists ==
  /\ [][\A r \in Workers :
          (pc[r] = "options" /\ pc'[r] # "options") =>
            LET name == CookieName(platform[r][1]) IN
            /\ pc'[r] = "extract"
            /\ ("cookiefile" \in DOMAIN ydl_opts'[r][1]) <=> cookies[name]
            /\ ("cookiefile" \in DOMAIN ydl_opts'[r][1]) =>
                 ydl_opts'[r][1]["cookiefile"] = Some(CwdPath(name))]_vars
  /\ [][\A r \in Workers :
          (pc[r] = "extract" /\ pc'[r] # "extract") =>
            (invoked'[r] /\ ydl_opts'[r] = ydl_opts[r])]_vars

C10_Witness ==
  \E r \in Workers :
    /\ invoked[r]
    /\ ~cookies[CookieName(platform[r][1])]
    /\ "cookiefile" \notin DOMAIN ydl_opts[r][1]
    /\ platform[r] = Some("instagram")

===========================================================================
